---- MODULE Spec2Model ----
(***************************************************************************)
(* Model of the CV matcher: the LaTeX region extractor (latex_parser.py),   *)
(* the region writer and its validators (latex_writer.py) and the command  *)
(* line run that drives them (cli.py).                                      *)
(*                                                                         *)
(* A text is a sequence of tokens.  A token is a piece of text that the     *)
(* patterns of the program either match whole or not at all: a single      *)
(* character (backslash, brace, newline, space), a word, or the text of a   *)
(* LaTeX command up to and including its opening brace.                     *)
(***************************************************************************)
EXTENDS Integers, Sequences, FiniteSets, TLC

\* ------------------------------------------------------------- tokens
BS == "\\"
LB == "{"
RB == "}"
NL == "\n"
SP == " "
NAME == "\\name{"
TAGLINE == "\\tagline{"
MAKEHEADER == "\\makeheader{"
HIGHLIGHTBAR == "\\highlightbar{"
MAINBAR == "\\mainbar{"
MAKEBODY == "\\makebody"
SEC_EXP == "\\section{Experiences description"
SEC_GS == "\\section{General Skills"
SEC_WC == "\\section{Wheel Chart"

\* Tokens that are one character long; every other token is longer and
\* neither starts a brace nor ends in a backslash.
SingleChar == {BS, LB, RB, NL, SP, "a", "X", "Y", "1"}
\* Tokens whose text holds one unescaped opening brace.
OpenCmd == {NAME, TAGLINE, MAKEHEADER, HIGHLIGHTBAR, MAINBAR, SEC_EXP, SEC_GS, SEC_WC}
\* str.strip() removes these from both ends.
Whitespace == {SP, NL}

Regions == {"tagline", "highlightbar", "mainbar", "experiences", "general_skills"}

\* ------------------------------------------------------- text helpers
Min(S) == CHOOSE x \in S : \A y \in S : x <= y

\* pat occurs in s at position i.
StartsAt(s, i, pat) ==
    /\ i >= 1
    /\ i + Len(pat) - 1 <= Len(s)
    /\ \A k \in 1..Len(pat) : s[i + k - 1] = pat[k]

\* The first position >= i where pat occurs in s, 0 when there is none.
FindFrom(s, i, pat) ==
    LET hits == {j \in i..Len(s) : StartsAt(s, j, pat)}
    IN  IF hits = {} THEN 0 ELSE Min(hits)

Contains(s, pat) == FindFrom(s, 1, pat) # 0

\* str.strip(): drop leading and trailing whitespace.
Strip(s) ==
    LET keep == {i \in 1..Len(s) : s[i] \notin Whitespace}
    IN  IF keep = {} THEN << >>
        ELSE SubSeq(s, Min(keep), CHOOSE x \in keep : \A y \in keep : y <= x)

\* --------------------------------------------- the five region patterns
\* tagline         \\tagline\{[^}]+\}
\* highlightbar    (\\highlightbar\{)(.*?)(\n\})
\* mainbar         (\\mainbar\{)(.*?)(\\makebody)
\* experiences     (\\section\{Experiences description\})(.*?)(\\makebody)
\* general_skills  (\\section\{General Skills\})(.*?)(\\section\{Wheel Chart\})
StartPat(r) ==
    CASE r = "tagline" -> <<TAGLINE>>
      [] r = "highlightbar" -> <<HIGHLIGHTBAR>>
      [] r = "mainbar" -> <<MAINBAR>>
      [] r = "experiences" -> <<SEC_EXP, RB>>
      [] r = "general_skills" -> <<SEC_GS, RB>>

EndPat(r) ==
    CASE r = "tagline" -> <<RB>>
      [] r = "highlightbar" -> <<NL, RB>>
      [] r = "mainbar" -> <<MAKEBODY>>
      [] r = "experiences" -> <<MAKEBODY>>
      [] r = "general_skills" -> <<SEC_WC, RB>>

\* [^}]+ needs one character at least; (.*?) may be empty.
MinInterior(r) == IF r = "tagline" THEN 1 ELSE 0

NoMatch == [found |-> FALSE, start |-> 0, from |-> 0, to |-> 0, end |-> 0]

\* The match of region r's pattern that starts at position i of s: the start
\* anchor at i, then the interior up to the first end anchor after it.
\* start..end is the whole match, from..to the interior.
MatchAt(s, i, r) ==
    LET a == StartPat(r)
        e == EndPat(r)
        j == IF StartsAt(s, i, a) THEN FindFrom(s, i + Len(a), e) ELSE 0
    IN  IF j # 0 /\ j - (i + Len(a)) >= MinInterior(r)
        THEN [found |-> TRUE, start |-> i, from |-> i + Len(a), to |-> j - 1,
              end |-> j + Len(e) - 1]
        ELSE NoMatch

\* re.search from position i: the leftmost match.
SearchFrom(s, i, r) ==
    LET hits == {k \in i..Len(s) : MatchAt(s, k, r).found}
    IN  IF hits = {} THEN NoMatch ELSE MatchAt(s, Min(hits), r)

Search(s, r) == SearchFrom(s, 1, r)

\* ------------------------------------------------- LaTeXParser (reader)
Absent == [some |-> FALSE, val |-> << >>]
Present(v) == [some |-> TRUE, val |-> v]

\* One field of CVSections: group 1 of the first match, None without a match.
ExtractRegion(latex_content, r) ==
    LET m == Search(latex_content, r)
    IN  IF m.found THEN Present(SubSeq(latex_content, m.from, m.to)) ELSE Absent

extract_sections(latex_content) ==
    [r \in Regions |-> ExtractRegion(latex_content, r)]

\* The marker that stands for a missing region in the prompt.
NA == <<"N/A">>

\* "x or 'N/A'" for each field: None and the empty string both give the marker.
sections_to_dict(secs) ==
    [r \in Regions |-> IF secs[r].some /\ secs[r].val # << >> THEN secs[r].val ELSE NA]

\* ----------------------------------------------- LaTeXWriter (validators)
\* What one token adds to the brace depth.  A one-character token that
\* follows a backslash is skipped; a longer token starts with its own
\* backslash or letter, so its brace is counted whatever precedes it.
Delta(content, i) ==
    LET escaped == i > 1 /\ content[i - 1] = BS /\ content[i] \in SingleChar
    IN  CASE escaped -> 0
          [] content[i] = LB -> 1
          [] content[i] = RB -> -1
          [] content[i] \in OpenCmd -> 1
          [] OTHER -> 0

Valid == [valid |-> TRUE, reason |-> "", at |-> 0]
Invalid(reason, at) == [valid |-> FALSE, reason |-> reason, at |-> at]

\* A scan that looks at the depth at the end of the text only.
RECURSIVE ScanBracesEndOnly(_, _, _)
ScanBracesEndOnly(content, i, depth) ==
    IF i > Len(content)
    THEN IF depth # 0 THEN Invalid("Unmatched opening braces", depth) ELSE Valid
    ELSE ScanBracesEndOnly(content, i + 1, depth + Delta(content, i))

RECURSIVE ScanBraces(_, _, _)
ScanBraces(content, i, depth) ==
    IF i > Len(content)
    THEN IF depth # 0 THEN Invalid("Unmatched opening braces", depth) ELSE Valid
    ELSE LET d == depth + Delta(content, i)
         IN  IF d < 0 THEN Invalid("Unmatched closing brace", i)
             ELSE ScanBraces(content, i + 1, d)

validate_braces(content) == ScanBraces(content, 1, 0)

required_commands == <<NAME, TAGLINE, MAKEHEADER, HIGHLIGHTBAR, MAINBAR>>

\* A structure check that looks for the commands before it counts braces.
StructureCommandsFirst(original_cv, adapted_cv) ==
    LET b == validate_braces(adapted_cv)
        missing == {k \in 1..Len(required_commands) :
                        ~Contains(adapted_cv, <<required_commands[k]>>)}
    IN  IF missing # {} THEN Invalid("Missing required command", Min(missing))
        ELSE b

validate_latex_structure(original_cv, adapted_cv) ==
    LET b == validate_braces(adapted_cv)
        missing == {k \in 1..Len(required_commands) :
                        ~Contains(adapted_cv, <<required_commands[k]>>)}
    IN  IF ~b.valid THEN b
        ELSE IF missing # {} THEN Invalid("Missing required command", Min(missing))
        ELSE Valid

\* ------------------------------------------------- LaTeXWriter (writer)
clean_content(content) == Strip(content)

\* The tagline value: stripped, then a \tagline{...} wrapper around it removed
\* (re.sub of ^\\tagline\{(.+)\}$ by group 1).
TaglineContent(value) ==
    LET t == Strip(value)
    IN  IF Len(t) >= 3 /\ t[1] = TAGLINE /\ t[Len(t)] = RB
        THEN SubSeq(t, 2, Len(t) - 1)
        ELSE t

\* The text that apply_adaptations inserts for region r given the value.
Content(r, value) ==
    IF r = "tagline" THEN TaglineContent(value) ELSE clean_content(value)

\* The newlines the writer puts around the inserted text.
FrameLeft(r) == IF r = "tagline" THEN << >> ELSE <<NL>>
FrameRight(r) == IF r \in {"tagline", "highlightbar"} THEN << >> ELSE <<NL, NL>>

\* A replacement string handed to re.sub as a template: \1 stands for group 1.
RECURSIVE ExpandTemplate(_, _)
ExpandTemplate(c, g1) ==
    IF c = << >> THEN << >>
    ELSE IF Len(c) >= 2 /\ c[1] = BS /\ c[2] = "1"
         THEN g1 \o ExpandTemplate(SubSeq(c, 3, Len(c)), g1)
         ELSE <<c[1]>> \o ExpandTemplate(Tail(c), g1)

ReplacementAsTemplate(r, s, m, c) ==
    LET g1 == SubSeq(s, m.start, m.from - 1)
    IN  g1 \o FrameLeft(r) \o ExpandTemplate(c, g1) \o FrameRight(r)
           \o SubSeq(s, m.to + 1, m.end)

\* A replacement function that leaves out m.group(3), the end anchor.
ReplacementDropsEndAnchor(r, s, m, c) ==
    SubSeq(s, m.start, m.from - 1) \o FrameLeft(r) \o c \o FrameRight(r)

\* What the replacement function (the lambda) returns for match m of s: the
\* start anchor, the framed content taken literally, the end anchor.
Replacement(r, s, m, c) ==
    SubSeq(s, m.start, m.from - 1) \o FrameLeft(r) \o c \o FrameRight(r)
        \o SubSeq(s, m.to + 1, m.end)

\* re.sub without a count, from position i on: every match, left to right,
\* each search resuming after the previous match.
RECURSIVE ReSubFrom(_, _, _, _)
ReSubFrom(s, i, r, c) ==
    LET m == SearchFrom(s, i, r)
    IN  IF ~m.found THEN SubSeq(s, i, Len(s))
        ELSE SubSeq(s, i, m.start - 1) \o Replacement(r, s, m, c)
                \o ReSubFrom(s, m.end + 1, r, c)

ReSub(s, r, c) == ReSubFrom(s, 1, r, c)

\* The order of the five "if r in adaptations" blocks of apply_adaptations.
RegionOrder == <<"tagline", "highlightbar", "mainbar", "experiences", "general_skills">>

\* A block that, finding no anchors, puts the region at the end of the document.
SubRegionAddsMissing(cv, adaptations, r) ==
    IF r \notin DOMAIN adaptations THEN cv
    ELSE IF Search(cv, r).found THEN ReSub(cv, r, Content(r, adaptations[r]))
    ELSE cv \o StartPat(r) \o Content(r, adaptations[r]) \o EndPat(r)

\* One block: skipped when the key is missing, else re.sub of the region's
\* pattern over the document as updated so far.
SubRegion(cv, adaptations, r) ==
    IF r \in DOMAIN adaptations THEN ReSub(cv, r, Content(r, adaptations[r])) ELSE cv

\* updated_cv after the first k blocks.
RECURSIVE SubstituteUpTo(_, _, _)
SubstituteUpTo(original_cv, adaptations, k) ==
    IF k = 0 THEN original_cv
    ELSE SubRegion(SubstituteUpTo(original_cv, adaptations, k - 1), adaptations,
                   RegionOrder[k])

Substitute(original_cv, adaptations) ==
    SubstituteUpTo(original_cv, adaptations, Len(RegionOrder))

\* The regions whose content fails _validate_braces: a warning is printed
\* for each and the substitution goes on.
BraceWarnings(adaptations) ==
    {r \in DOMAIN adaptations : ~validate_braces(Content(r, adaptations[r])).valid}

\* _compile_latex's verdict for what happened to the xelatex call: "ok" exit
\* status 0, "failed" another exit status, "timeout" TimeoutExpired, "absent"
\* FileNotFoundError (no xelatex), "error" any other exception.
compile_latex(outcome) == outcome \in {"ok", "absent"}

\* What the xelatex call can do on a machine with or without xelatex.
CompileOutcomes(installed) ==
    IF installed THEN {"ok", "failed", "timeout", "error"} ELSE {"absent"}

\* ------------------------------------- GeminiAdapter (response decoding)
\* A response is a sequence of characters; the code fence, the word json
\* and the sentinel of _fix_json_escaping are tokens of their own.
QUOTE == "\""
COLON == ":"
CR == "\r"
TAB == "\t"
SLASH == "/"
\* Three backticks.
FENCE == "<fence>"
JSONWORD == "json"
\* The character of code 0, with which the sentinel starts and ends.
NUL == "<NUL>"
SENTINEL == "<NUL>ESCAPED_BACKSLASH<NUL>"

\* \s of the patterns and the whitespace of the JSON grammar.
JsonSpace == {SP, NL, CR, TAB}

\* Step 1 of _fix_json_escaping, from position i on: a character behind a
\* backslash is copied as it is; a quote flips in_string; inside a string a
\* newline, carriage return or tab becomes its two-character escape.
RECURSIVE ControlPassFrom(_, _, _, _)
ControlPassFrom(json_text, i, in_string, escape_next) ==
    IF i > Len(json_text) THEN << >>
    ELSE LET char == json_text[i]
         IN  IF escape_next
             THEN <<char>> \o ControlPassFrom(json_text, i + 1, in_string, FALSE)
             ELSE IF char = BS
             THEN <<char>> \o ControlPassFrom(json_text, i + 1, in_string, TRUE)
             ELSE IF char = QUOTE
             THEN <<char>> \o ControlPassFrom(json_text, i + 1, ~in_string, FALSE)
             ELSE (CASE in_string /\ char = NL -> <<BS, "n">>
                     [] in_string /\ char = CR -> <<BS, "r">>
                     [] in_string /\ char = TAB -> <<BS, "t">>
                     [] OTHER -> <<char>>)
                  \o ControlPassFrom(json_text, i + 1, in_string, FALSE)

ControlPass(json_text) == ControlPassFrom(json_text, 1, FALSE, FALSE)

\* json_text.replace of two backslashes by the sentinel, left to right.
RECURSIVE Protect(_)
Protect(t) ==
    IF t = << >> THEN << >>
    ELSE IF Len(t) >= 2 /\ t[1] = BS /\ t[2] = BS
         THEN <<SENTINEL>> \o Protect(SubSeq(t, 3, Len(t)))
         ELSE <<t[1]>> \o Protect(Tail(t))

\* The characters of the negative lookahead: n r t b f u, the quote, the
\* backslash, the slash and NUL, with which the sentinel starts.
EscapeFollowers == {"n", "r", "t", "b", "f", "u", QUOTE, BS, SLASH, NUL, SENTINEL}

\* A pass that doubles every backslash left after the protection.
RECURSIVE ReescapeEvery(_)
ReescapeEvery(t) ==
    IF t = << >> THEN << >>
    ELSE IF t[1] = BS THEN <<BS, BS>> \o ReescapeEvery(Tail(t))
    ELSE <<t[1]>> \o ReescapeEvery(Tail(t))

\* The re.sub of step 2: a backslash that none of those characters follows,
\* one at the end of the text included, becomes two backslashes.
RECURSIVE Reescape(_)
Reescape(t) ==
    IF t = << >> THEN << >>
    ELSE IF t[1] = BS /\ ~(Len(t) >= 2 /\ t[2] \in EscapeFollowers)
         THEN <<BS, BS>> \o Reescape(Tail(t))
         ELSE <<t[1]>> \o Reescape(Tail(t))

\* json_text.replace of the sentinel by two backslashes.
RECURSIVE Restore(_)
Restore(t) ==
    IF t = << >> THEN << >>
    ELSE IF t[1] = SENTINEL THEN <<BS, BS>> \o Restore(Tail(t))
    ELSE <<t[1]>> \o Restore(Tail(t))

fix_json_escaping(json_text) == Restore(Reescape(Protect(ControlPass(json_text))))

\* json.loads, for the texts these characters can make: a string or an
\* object of one member at most, whitespace around the tokens.
SkipSpace(t, i) ==
    LET rest == {j \in i..Len(t) : t[j] \notin JsonSpace}
    IN  IF rest = {} THEN Len(t) + 1 ELSE Min(rest)

NoParse == [ok |-> FALSE, next |-> 0, val |-> << >>]

\* The escapes of one character and what they stand for.
SimpleEscapes == {"n", "r", "t", "b", "f", QUOTE, BS, SLASH}
Unescape(char) ==
    CASE char = "n" -> NL
      [] char = "r" -> CR
      [] char = "t" -> TAB
      [] char = "b" -> "<backspace>"
      [] char = "f" -> "<formfeed>"
      [] OTHER -> char

\* Characters below space, which a strict decoder refuses inside a string.
ControlChars == {NL, CR, TAB, NUL, SENTINEL}

\* The rest of a string whose opening quote has been read.
RECURSIVE ScanString(_, _, _)
ScanString(t, j, acc) ==
    IF j > Len(t) THEN NoParse
    ELSE IF t[j] = QUOTE THEN [ok |-> TRUE, next |-> j + 1, val |-> acc]
    ELSE IF t[j] = BS
         THEN IF j + 1 <= Len(t) /\ t[j + 1] \in SimpleEscapes
              THEN ScanString(t, j + 2, Append(acc, Unescape(t[j + 1])))
              ELSE NoParse
    ELSE IF t[j] \in ControlChars THEN NoParse
    ELSE ScanString(t, j + 1, Append(acc, t[j]))

\* A decoded string is written <chars>, a decoded object {<key>:value}.
StringValue(chars) == <<"<">> \o chars \o <<">">>

RECURSIVE ParseValue(_, _)
ParseValue(t, i) ==
    IF i > Len(t) THEN NoParse
    ELSE IF t[i] = QUOTE
    THEN LET r == ScanString(t, i + 1, << >>)
         IN  IF r.ok THEN [ok |-> TRUE, next |-> r.next, val |-> StringValue(r.val)]
             ELSE NoParse
    ELSE IF t[i] = LB
    THEN LET j == SkipSpace(t, i + 1)
         IN  IF j <= Len(t) /\ t[j] = RB
             THEN [ok |-> TRUE, next |-> j + 1, val |-> <<LB, RB>>]
             ELSE IF j <= Len(t) /\ t[j] = QUOTE
             THEN LET k == ScanString(t, j + 1, << >>)
                      c == SkipSpace(t, k.next)
                      v == ParseValue(t, SkipSpace(t, c + 1))
                      e == SkipSpace(t, v.next)
                  IN  IF k.ok /\ c <= Len(t) /\ t[c] = COLON /\ v.ok
                         /\ e <= Len(t) /\ t[e] = RB
                      THEN [ok |-> TRUE, next |-> e + 1,
                            val |-> <<LB>> \o StringValue(k.val) \o <<COLON>> \o v.val
                                       \o <<RB>>]
                      ELSE NoParse
             ELSE NoParse
    ELSE NoParse

\* json.loads(t): the value, with nothing but whitespace around it.
json_loads(t) ==
    LET v == ParseValue(t, SkipSpace(t, 1))
    IN  IF v.ok /\ SkipSpace(t, v.next) = Len(t) + 1
        THEN [ok |-> TRUE, val |-> v.val]
        ELSE [ok |-> FALSE, val |-> << >>]

\* The fence pattern at position i: the fence, json or not, whitespace, then
\* from an opening brace to the first closing brace that whitespace and a
\* fence follow.
FenceMatchAt(t, i) ==
    LET a == IF i + 1 <= Len(t) /\ t[i + 1] = JSONWORD THEN i + 2 ELSE i + 1
        b == SkipSpace(t, a)
        ends == {e \in (b + 1)..Len(t) :
                    /\ t[e] = RB
                    /\ SkipSpace(t, e + 1) <= Len(t)
                    /\ t[SkipSpace(t, e + 1)] = FENCE}
    IN  IF t[i] = FENCE /\ b <= Len(t) /\ t[b] = LB /\ ends # {}
        THEN [found |-> TRUE, from |-> b, to |-> Min(ends)]
        ELSE [found |-> FALSE, from |-> 0, to |-> 0]

\* response_text after the re.search for a fenced object: group 1 of the
\* leftmost match, the text itself without one.
StripFence(response_text) ==
    LET hits == {i \in 1..Len(response_text) : FenceMatchAt(response_text, i).found}
    IN  IF hits = {} THEN response_text
        ELSE LET m == FenceMatchAt(response_text, Min(hits))
             IN  SubSeq(response_text, m.from, m.to)

\* A _parse_response that repairs the text before it decodes it.
ParseRepairsFirst(response_text) ==
    LET fixed == fix_json_escaping(StripFence(response_text))
        only == json_loads(fixed)
    IN  [raised |-> ~only.ok, adaptations |-> only.val, decoded |-> fixed,
         fix_calls |-> 1, loads_calls |-> 1]

\* _parse_response: what it returns or that it raised ValueError, the text
\* that decoded, and how often it called _fix_json_escaping and json.loads.
parse_response(response_text) ==
    LET text == StripFence(response_text)
        first == json_loads(text)
        fixed == fix_json_escaping(text)
        second == json_loads(fixed)
    IN  IF first.ok
        THEN [raised |-> FALSE, adaptations |-> first.val, decoded |-> text,
              fix_calls |-> 0, loads_calls |-> 1]
        ELSE [raised |-> ~second.ok, adaptations |-> second.val, decoded |-> fixed,
              fix_calls |-> 1, loads_calls |-> 2]

\* -------------------------------------------------------------- inputs
MaxLen == 2
MaxPairLen == 1

\* A CV as the templates have it: the required commands and the first page.
DocC6 ==
    <<NAME, "a", RB, TAGLINE, "Engineer", RB, MAKEHEADER, RB,
      HIGHLIGHTBAR, NL, "a", NL, RB, MAINBAR, "X", RB, MAKEBODY>>

\* All five regions, each anchor pair once.
DocFull ==
    DocC6 \o <<SEC_EXP, RB, "a", MAKEBODY, SEC_GS, RB, "a", SEC_WC, RB>>

\* Two pages: the second \mainbar holds the experiences section.
DocTwoPage ==
    DocC6 \o <<MAINBAR, SEC_EXP, RB, "a", RB, MAKEBODY, SEC_GS, RB, "a", SEC_WC, RB>>

\* Every anchor pair twice.
DocTwice ==
    LET body == <<TAGLINE, "a", RB, HIGHLIGHTBAR, "a", NL, RB, MAINBAR, "X", RB,
                  MAKEBODY, SEC_EXP, RB, "a", MAKEBODY, SEC_GS, RB, "a", SEC_WC, RB>>
    IN  <<NAME, "a", RB, MAKEHEADER, RB>> \o body \o body

Docs == {DocC6, DocFull, DocTwoPage, DocTwice}

\* The tokens a generated value is made of.
ValueTokens == {"a", "1", NL, LB, RB, BS, TAGLINE, MAINBAR, MAKEBODY}
PairTokens == {"a", RB, MAKEBODY}

Texts(tokens, n) == UNION {[1..k -> tokens] : k \in 0..n}

\* The adaptation of the end-to-end scenario.
AdaptC6 == ("tagline" :> <<"Senior", SP, "Engineer">>) @@ ("mainbar" :> <<"Y">>)
\* Every region rewritten.
AdaptAll == [r \in Regions |-> <<"Y">>]
\* A tagline that repeats the command around its text.
AdaptWrapped == ("tagline" :> <<TAGLINE, "a", RB>>)
\* A value with whitespace around it and a group reference inside.
AdaptPadded == ("mainbar" :> <<NL, SP, "a", BS, "1", SP, NL>>)
\* A tagline that holds the start anchor of a region substituted after it.
AdaptInjected == ("tagline" :> <<MAINBAR>>) @@ ("mainbar" :> <<"Y">>)

\* The decoded responses: no key, one key with any text, two keys with short
\* texts, and the fixed ones above.
Adaptations ==
    {<< >>, AdaptC6, AdaptAll, AdaptWrapped, AdaptPadded, AdaptInjected}
    \cup {(r :> v) : r \in Regions, v \in Texts(ValueTokens, MaxLen)}
    \cup UNION {{(RegionOrder[p[1]] :> v) @@ (RegionOrder[p[2]] :> w) :
                        v \in Texts(PairTokens, MaxPairLen),
                        w \in Texts(PairTokens, MaxPairLen)} :
                    p \in {q \in (1..Len(RegionOrder)) \X (1..Len(RegionOrder)) :
                              q[1] < q[2]}}

\* --------------------------------------------------------------- state
VARIABLES
    pc,              \* where main() and CVMatcherCLI.run stand
    api_key,         \* whether --api-key or GEMINI_API_KEY gives a key
    xelatex,         \* whether the xelatex executable is installed
    original_cv,     \* the text read from config.cv_path
    sections,        \* extract_sections(original_cv)
    adaptations,     \* what adapt_cv returned
    adapted_cv,      \* what apply_adaptations returned
    compile,         \* what happened to the xelatex call
    warned,          \* regions for which a brace warning was printed
    output_file,     \* the file at config.output_path
    exit_code,       \* the exit status of the process
    failure,         \* why the run failed
    generate_calls,  \* calls of model.generate_content
    fix_calls,       \* calls of GeminiAdapter.fix_adaptation_errors (run has none)
    write_calls,     \* calls of LaTeXWriter.write_file
    fn,              \* the function called on its own ("none" in a run of main)
    upc,             \* where that call stands: "call", then "done"
    input,           \* the argument of that call
    output,          \* what that call returned
    tmpdir           \* the scratch directory of _compile_latex and its files

vars == <<pc, api_key, xelatex, original_cv, sections, adaptations, adapted_cv,
          compile, warned, output_file, exit_code, failure, generate_calls,
          fix_calls, write_calls, fn, upc, input, output, tmpdir>>

\* The variables of a function called on its own: a run of main() leaves
\* them alone.
\* No scratch directory.
NoDir == [exists |-> FALSE, files |-> {}]

unitVars == <<fn, upc, input, output, tmpdir>>

Init ==
    /\ pc = "main"
    /\ api_key \in BOOLEAN
    /\ xelatex \in BOOLEAN
    /\ original_cv \in Docs
    /\ sections = [r \in Regions |-> Absent]
    /\ adaptations = << >>
    /\ adapted_cv = << >>
    /\ compile = "none"
    /\ warned = {}
    /\ output_file = Absent
    /\ exit_code = "running"
    /\ failure = "none"
    /\ generate_calls = 0
    /\ fix_calls = 0
    /\ write_calls = 0
    /\ fn = "none"
    /\ upc = "none"
    /\ input = << >>
    /\ output = << >>
    /\ tmpdir = NoDir

\* main(): AgentConfig.from_env raises ValueError without a key; exit 1.
MainConfigError ==
    /\ pc = "main"
    /\ ~api_key
    /\ pc' = "exited"
    /\ exit_code' = "1"
    /\ failure' = "config"
    /\ UNCHANGED <<unitVars, api_key, xelatex, original_cv, sections, adaptations, adapted_cv,
                   compile, warned, output_file, generate_calls, fix_calls, write_calls>>

\* main(): the configuration is built, cli.run starts: the CV is read and
\* its sections are extracted.
RunExtract ==
    /\ pc = "main"
    /\ api_key
    /\ sections' = extract_sections(original_cv)
    /\ pc' = "adapt"
    /\ UNCHANGED <<unitVars, api_key, xelatex, original_cv, adaptations, adapted_cv, compile,
                   warned, output_file, exit_code, failure, generate_calls, fix_calls,
                   write_calls>>

\* adapt_cv: generate_content raises; the exception is re-raised.
AdaptCvCallFails ==
    /\ pc = "adapt"
    /\ generate_calls' = generate_calls + 1
    /\ failure' = "generate"
    /\ pc' = "raised"
    /\ UNCHANGED <<unitVars, api_key, xelatex, original_cv, sections, adaptations, adapted_cv,
                   compile, warned, output_file, exit_code, fix_calls, write_calls>>

\* adapt_cv: the response does not decode, even repaired: ValueError.
AdaptCvDecodeFails ==
    /\ pc = "adapt"
    /\ generate_calls' = generate_calls + 1
    /\ failure' = "decode"
    /\ pc' = "raised"
    /\ UNCHANGED <<unitVars, api_key, xelatex, original_cv, sections, adaptations, adapted_cv,
                   compile, warned, output_file, exit_code, fix_calls, write_calls>>

\* adapt_cv returns a decoded value that is no mapping of region names to
\* texts (a number, a list of numbers, a mapping with a number as value):
\* the key lookup or the .strip() in run and apply_adaptations raises
\* TypeError or AttributeError before any substitution.
AdaptCvReturnsNonText ==
    /\ pc = "adapt"
    /\ generate_calls' = generate_calls + 1
    /\ failure' = "nontext"
    /\ pc' = "raised"
    /\ UNCHANGED <<unitVars, api_key, xelatex, original_cv, sections, adaptations, adapted_cv,
                   compile, warned, output_file, exit_code, fix_calls, write_calls>>

\* adapt_cv: the response decodes to a mapping of region names to texts.
AdaptCvReturns ==
    /\ pc = "adapt"
    /\ \E a \in Adaptations : adaptations' = a
    /\ generate_calls' = generate_calls + 1
    /\ pc' = "apply"
    /\ UNCHANGED <<unitVars, api_key, xelatex, original_cv, sections, adapted_cv, compile,
                   warned, output_file, exit_code, failure, fix_calls, write_calls>>

\* apply_adaptations: the five substitutions (a brace warning does not stop
\* them), then _compile_latex on the result; ValueError when it says no.
ApplyAdaptations ==
    /\ pc = "apply"
    /\ warned' = BraceWarnings(adaptations)
    /\ \E outcome \in CompileOutcomes(xelatex) :
          /\ compile' = outcome
          /\ IF compile_latex(outcome)
             THEN /\ adapted_cv' = Substitute(original_cv, adaptations)
                  /\ pc' = "write"
                  /\ failure' = failure
             ELSE /\ adapted_cv' = adapted_cv
                  /\ pc' = "raised"
                  /\ failure' = "rejected"
    /\ UNCHANGED <<unitVars, api_key, xelatex, original_cv, sections, adaptations, output_file,
                   exit_code, generate_calls, fix_calls, write_calls>>

\* run: write_file(config.output_path, adapted_cv).
WriteFile ==
    /\ pc = "write"
    /\ output_file' = Present(adapted_cv)
    /\ write_calls' = write_calls + 1
    /\ pc' = "returned"
    /\ UNCHANGED <<unitVars, api_key, xelatex, original_cv, sections, adaptations, adapted_cv,
                   compile, warned, exit_code, failure, generate_calls, fix_calls>>

\* A handler that reports the error and still ends with status 0.
MainExceptExitsZero ==
    /\ pc = "raised"
    /\ exit_code' = "0"
    /\ pc' = "exited"
    /\ UNCHANGED <<unitVars, api_key, xelatex, original_cv, sections, adaptations, adapted_cv,
                   compile, warned, output_file, failure, generate_calls, fix_calls,
                   write_calls>>

\* A handler that starts the run again after an error, up to three calls.
MainExceptRetries ==
    /\ pc = "raised"
    /\ IF generate_calls < 3
       THEN pc' = "adapt" /\ exit_code' = exit_code
       ELSE pc' = "exited" /\ exit_code' = "1"
    /\ UNCHANGED <<unitVars, api_key, xelatex, original_cv, sections, adaptations, adapted_cv,
                   compile, warned, output_file, failure, generate_calls, fix_calls,
                   write_calls>>

\* main(): except Exception: print the error, sys.exit(1).
MainExcept ==
    /\ pc = "raised"
    /\ exit_code' = "1"
    /\ pc' = "exited"
    /\ UNCHANGED <<unitVars, api_key, xelatex, original_cv, sections, adaptations, adapted_cv,
                   compile, warned, output_file, failure, generate_calls, fix_calls,
                   write_calls>>

\* main(): cli.run returned; the process ends with status 0.
MainReturn ==
    /\ pc = "returned"
    /\ exit_code' = "0"
    /\ pc' = "exited"
    /\ UNCHANGED <<unitVars, api_key, xelatex, original_cv, sections, adaptations, adapted_cv,
                   compile, warned, output_file, failure, generate_calls, fix_calls,
                   write_calls>>

Next ==
    \/ MainConfigError
    \/ RunExtract
    \/ AdaptCvCallFails
    \/ AdaptCvDecodeFails
    \/ AdaptCvReturnsNonText
    \/ AdaptCvReturns
    \/ ApplyAdaptations
    \/ WriteFile
    \/ MainExcept
    \/ MainReturn

Spec == Init /\ [][Next]_vars

\* apply_adaptations has returned a document.
Returned == compile \in {"ok", "absent"}

\* The candidate that apply_adaptations builds from the first response.
Candidate == Substitute(original_cv, adaptations)

\* ------------------------------------ runs on a CV that lacks a region
\* DocFull without region r: its anchors and what stands between them.
MissingDoc(r) ==
    LET m == Search(DocFull, r)
    IN  SubSeq(DocFull, 1, m.start - 1) \o SubSeq(DocFull, m.end + 1, Len(DocFull))

MissingDocs == {MissingDoc(r) : r \in Regions}

InitMissing ==
    /\ pc = "main"
    /\ api_key \in BOOLEAN
    /\ xelatex \in BOOLEAN
    /\ original_cv \in MissingDocs
    /\ sections = [r \in Regions |-> Absent]
    /\ adaptations = << >>
    /\ adapted_cv = << >>
    /\ compile = "none"
    /\ warned = {}
    /\ output_file = Absent
    /\ exit_code = "running"
    /\ failure = "none"
    /\ generate_calls = 0
    /\ fix_calls = 0
    /\ write_calls = 0
    /\ fn = "none"
    /\ upc = "none"
    /\ input = << >>
    /\ output = << >>
    /\ tmpdir = NoDir

SpecMissing == InitMissing /\ [][Next]_vars

\* ------------------------------------- functions called on their own
\* The variables of a run of main().
runVars == <<pc, api_key, xelatex, original_cv, sections, adaptations, adapted_cv,
             compile, warned, output_file, exit_code, failure, generate_calls,
             fix_calls, write_calls>>

\* No run of main() is under way.
NoRun ==
    /\ pc = "none"
    /\ api_key = FALSE
    /\ xelatex = FALSE
    /\ original_cv = << >>
    /\ sections = [r \in Regions |-> Absent]
    /\ adaptations = << >>
    /\ adapted_cv = << >>
    /\ compile = "none"
    /\ warned = {}
    /\ output_file = Absent
    /\ exit_code = "running"
    /\ failure = "none"
    /\ generate_calls = 0
    /\ fix_calls = 0
    /\ write_calls = 0

\* The function f has been called on its own and has returned.
Called(f) == fn = f /\ upc = "done"

\* ----------------------------------------------- the validators alone
MaxBraceLen == 4
MaxTailLen == 2

\* Texts of single characters: braces, backslashes and a letter.
BraceTexts == Texts({BS, LB, RB, "a"}, MaxBraceLen)

\* Candidate documents: some of the mandatory commands, each with its
\* argument closed, then a tail of braces and letters.
RECURSIVE Commands(_, _)
Commands(present, k) ==
    IF k = 0 THEN << >>
    ELSE Commands(present, k - 1)
            \o (IF k \in present THEN <<required_commands[k], "a", RB>> ELSE << >>)

Candidates ==
    {Commands(present, Len(required_commands)) \o tail :
        present \in SUBSET (1..Len(required_commands)),
        tail \in Texts({LB, RB, "a"}, MaxTailLen)}

InitValidators ==
    /\ NoRun
    /\ upc = "call"
    /\ output = Valid
    /\ tmpdir = NoDir
    /\ \/ fn = "_validate_braces" /\ input \in BraceTexts
       \/ fn = "_validate_latex_structure" /\ input \in Candidates

\* LaTeXWriter._validate_braces(content).
ValidateBraces ==
    /\ fn = "_validate_braces"
    /\ upc = "call"
    /\ output' = validate_braces(input)
    /\ upc' = "done"
    /\ UNCHANGED <<runVars, fn, input, tmpdir>>

\* LaTeXWriter._validate_latex_structure(original_cv, adapted_cv); the
\* function does not read original_cv.
ValidateLatexStructure ==
    /\ fn = "_validate_latex_structure"
    /\ upc = "call"
    /\ output' = validate_latex_structure(input, input)
    /\ upc' = "done"
    /\ UNCHANGED <<runVars, fn, input, tmpdir>>

NextValidators ==
    \/ ValidateBraces
    \/ ValidateLatexStructure

SpecValidators == InitValidators /\ [][NextValidators]_vars

\* --------------------------------------------------- the parser alone
MaxInteriorLen == 1

\* What stands between a region's anchors.
Interiors == Texts({"a", NL}, MaxInteriorLen)

\* A region's piece of a document: its anchors around an interior, or
\* nothing when the region is left out.
Piece(r, c) == IF c.some THEN StartPat(r) \o c.val \o EndPat(r) ELSE << >>

RECURSIVE Pieces(_, _)
Pieces(choice, k) ==
    IF k = 0 THEN << >>
    ELSE Pieces(choice, k - 1) \o Piece(RegionOrder[k], choice[RegionOrder[k]])

\* The document with the regions that choice gives, top to bottom.
RegionDoc(choice) ==
    <<NAME, "a", RB>> \o Pieces(choice, Len(RegionOrder))

RegionChoices == [Regions -> {Absent} \cup {Present(v) : v \in Interiors}]

InitParser ==
    /\ fn = "extract_sections"
    /\ upc = "call"
    /\ input \in RegionChoices
    /\ output = << >>
    /\ tmpdir = NoDir
    /\ pc = "none"
    /\ api_key = FALSE
    /\ xelatex = FALSE
    /\ original_cv = RegionDoc(input)
    /\ sections = [r \in Regions |-> Absent]
    /\ adaptations = << >>
    /\ adapted_cv = << >>
    /\ compile = "none"
    /\ warned = {}
    /\ output_file = Absent
    /\ exit_code = "running"
    /\ failure = "none"
    /\ generate_calls = 0
    /\ fix_calls = 0
    /\ write_calls = 0

\* LaTeXParser.extract_sections(latex_content).
ExtractSections ==
    /\ fn = "extract_sections"
    /\ upc = "call"
    /\ sections' = extract_sections(original_cv)
    /\ fn' = "sections_to_dict"
    /\ UNCHANGED <<pc, api_key, xelatex, original_cv, adaptations, adapted_cv, compile,
                   warned, output_file, exit_code, failure, generate_calls, fix_calls,
                   write_calls, upc, input, output, tmpdir>>

\* LaTeXParser.sections_to_dict(sections), as adapt_cv calls it on the
\* sections that extract_sections returned.
SectionsToDict ==
    /\ fn = "sections_to_dict"
    /\ upc = "call"
    /\ output' = sections_to_dict(sections)
    /\ upc' = "done"
    /\ UNCHANGED <<runVars, fn, input, tmpdir>>

NextParser ==
    \/ ExtractSections
    \/ SectionsToDict

SpecParser == InitParser /\ [][NextParser]_vars

\* ------------------------------------------- response decoding alone
MaxJsonLen == 3

\* What a generated string value is made of: backslashes, an escape letter
\* and another letter, quotes, raw control characters.
Contents == Texts({BS, "n", "s", QUOTE, NL, CR, TAB, NUL}, MaxJsonLen)

\* The content as a bare string, as the value of an object, the same with
\* newlines between the tokens, and on its own.
Bodies(c) ==
    {<<QUOTE>> \o c \o <<QUOTE>>,
     <<LB, QUOTE, "a", QUOTE, COLON, SP, QUOTE>> \o c \o <<QUOTE, RB>>,
     <<LB, NL, QUOTE, "a", QUOTE, COLON, QUOTE>> \o c \o <<QUOTE, NL, RB>>,
     c}

\* A body as it is, in a json fence, and in a plain fence behind some words.
Fenced(b) ==
    {b,
     <<FENCE, JSONWORD, NL>> \o b \o <<NL, FENCE>>,
     <<"s", SP, FENCE>> \o b \o <<FENCE, NL>>}

Responses == UNION {Fenced(b) : b \in UNION {Bodies(c) : c \in Contents}}

InitJson ==
    /\ NoRun
    /\ fn \in {"_fix_json_escaping", "_parse_response"}
    /\ upc = "call"
    /\ input \in Responses
    /\ output = << >>
    /\ tmpdir = NoDir

\* GeminiAdapter._fix_json_escaping(json_text): the text after step 1 and
\* the text returned.
FixJsonEscaping ==
    /\ fn = "_fix_json_escaping"
    /\ upc = "call"
    /\ output' = [controlled |-> ControlPass(input), fixed |-> fix_json_escaping(input)]
    /\ upc' = "done"
    /\ UNCHANGED <<runVars, fn, input, tmpdir>>

\* GeminiAdapter._parse_response(response_text).
ParseResponse ==
    /\ fn = "_parse_response"
    /\ upc = "call"
    /\ output' = parse_response(input)
    /\ upc' = "done"
    /\ UNCHANGED <<runVars, fn, input, tmpdir>>

NextJson ==
    \/ FixJsonEscaping
    \/ ParseResponse

SpecJson == InitJson /\ [][NextJson]_vars

\* ----------------------------------------------- _compile_latex alone
\* The class and style files of latex_dir.
StyleFiles == {"cv.cls", "fonts.sty"}

\* What xelatex leaves in its working directory when it runs.
CompilerFiles == {"test.log", "test.aux"}

\* The tuple _compile_latex returns for what happened to the xelatex call.
CompileResult(outcome) ==
    [raised |-> FALSE, ok |-> compile_latex(outcome), outcome |-> outcome]

\* What a call that left through an exception of its own gives its caller.
CompileRaised == [raised |-> TRUE, ok |-> FALSE, outcome |-> "raised"]

InitCompile ==
    /\ pc = "none"
    /\ api_key = FALSE
    /\ xelatex \in BOOLEAN
    /\ original_cv = << >>
    /\ sections = [r \in Regions |-> Absent]
    /\ adaptations = << >>
    /\ adapted_cv = << >>
    /\ compile = "none"
    /\ warned = {}
    /\ output_file = Absent
    /\ exit_code = "running"
    /\ failure = "none"
    /\ generate_calls = 0
    /\ fix_calls = 0
    /\ write_calls = 0
    /\ fn = "_compile_latex"
    /\ upc = "call"
    /\ input \in Candidates
    /\ output = << >>
    /\ tmpdir = NoDir

\* with tempfile.TemporaryDirectory() as tmpdir: the directory is made.
CompileEnter ==
    /\ fn = "_compile_latex"
    /\ upc = "call"
    /\ tmpdir' = [exists |-> TRUE, files |-> {}]
    /\ upc' = "entered"
    /\ UNCHANGED <<runVars, fn, input, output>>

\* test.tex is written, or open or write raises and the with block is left.
CompileWriteTex ==
    /\ fn = "_compile_latex"
    /\ upc = "entered"
    /\ \/ /\ tmpdir' = [tmpdir EXCEPT !.files = @ \cup {"test.tex"}]
          /\ upc' = "written"
          /\ output' = output
       \/ /\ tmpdir' \in {tmpdir, [tmpdir EXCEPT !.files = @ \cup {"test.tex"}]}
          /\ upc' = "leaving"
          /\ output' = CompileRaised
    /\ UNCHANGED <<runVars, fn, input>>

\* The class and style files are copied; a copy that fails is passed over.
CompileCopyStyles ==
    /\ fn = "_compile_latex"
    /\ upc = "written"
    /\ \E copied \in SUBSET StyleFiles :
          tmpdir' = [tmpdir EXCEPT !.files = @ \cup copied]
    /\ upc' = "copied"
    /\ UNCHANGED <<runVars, fn, input, output>>

\* subprocess.run of xelatex and the return statement its outcome leads to;
\* a compiler that ran may have left its files.
CompileRun ==
    /\ fn = "_compile_latex"
    /\ upc = "copied"
    /\ \E outcome \in CompileOutcomes(xelatex) :
          /\ output' = CompileResult(outcome)
          /\ \E left \in SUBSET CompilerFiles :
                /\ outcome \in {"absent", "error"} => left = {}
                /\ tmpdir' = [tmpdir EXCEPT !.files = @ \cup left]
    /\ upc' = "leaving"
    /\ UNCHANGED <<runVars, fn, input>>

\* An exit that removes the directory only when the check succeeded.
CompileExitKeepsOnFailure ==
    /\ fn = "_compile_latex"
    /\ upc = "leaving"
    /\ tmpdir' = IF output.ok THEN NoDir ELSE tmpdir
    /\ upc' = "done"
    /\ UNCHANGED <<runVars, fn, input, output>>

\* The with block is left, by return or by exception: TemporaryDirectory
\* removes the directory and all that is in it.
CompileExit ==
    /\ fn = "_compile_latex"
    /\ upc = "leaving"
    /\ tmpdir' = NoDir
    /\ upc' = "done"
    /\ UNCHANGED <<runVars, fn, input, output>>

NextCompile ==
    \/ CompileEnter
    \/ CompileWriteTex
    \/ CompileCopyStyles
    \/ CompileRun
    \/ CompileExit

SpecCompile == InitCompile /\ [][NextCompile]_vars

\* ------------------------------- CVMatcherAgent (the standalone agent)
\* The standalone agent hands re.sub a replacement string, which re.sub
\* reads as a template. The values here are texts of single characters.
TemplateDigits == {"1", "3"}
\* The letters that make a character after a backslash, and a letter that
\* makes none.
TemplateEscapes == {"n", "r", "t"}
BadEscapeLetters == {"s"}

GroupNumber(c) == IF c = "1" THEN 1 ELSE 3

\* Three octal digits after a backslash stand for the character of that code.
OctalChar(a, b, c) == IF <<a, b, c>> = <<"1", "1", "1">> THEN "I" ELSE "<octal>"

TemplateError == [raised |-> TRUE, text |-> << >>]

\* The template's text for one match, or that re.error is raised. groups
\* are the groups of the match; a pattern without groups has none.
RECURSIVE parse_template(_, _, _)
parse_template(t, i, groups) ==
    LET then(piece, j) ==
            LET rest == parse_template(t, j, groups)
            IN  IF rest.raised THEN TemplateError
                ELSE [raised |-> FALSE, text |-> piece \o rest.text]
    IN  IF i > Len(t) THEN [raised |-> FALSE, text |-> << >>]
        ELSE IF t[i] # BS THEN then(<<t[i]>>, i + 1)
        ELSE IF i = Len(t) THEN TemplateError
        ELSE IF t[i + 1] \in TemplateDigits
        THEN IF i + 2 <= Len(t) /\ t[i + 2] \in TemplateDigits
             THEN IF i + 3 <= Len(t) /\ t[i + 3] \in TemplateDigits
                  THEN then(<<OctalChar(t[i + 1], t[i + 2], t[i + 3])>>, i + 4)
                  ELSE TemplateError
             ELSE IF GroupNumber(t[i + 1]) > Len(groups) THEN TemplateError
                  ELSE then(groups[GroupNumber(t[i + 1])], i + 2)
        ELSE IF t[i + 1] \in TemplateEscapes THEN then(<<Unescape(t[i + 1])>>, i + 2)
        ELSE IF t[i + 1] \in BadEscapeLetters THEN TemplateError
        ELSE IF t[i + 1] = BS THEN then(<<BS>>, i + 2)
        ELSE then(<<BS, t[i + 1]>>, i + 2)

\* The f-string of region r around the value: the tagline's spells the
\* command out behind a doubled backslash, the others name groups 1 and 3.
AgentTemplate(r, value) ==
    IF r = "tagline" THEN value \o <<RB>> ELSE <<BS, "1">> \o value \o <<BS, "3">>

\* The groups of match m of region r's pattern: the tagline's has none.
AgentGroups(r, s, m) ==
    IF r = "tagline" THEN << >>
    ELSE <<SubSeq(s, m.start, m.from - 1), SubSeq(s, m.from, m.to),
           SubSeq(s, m.to + 1, m.end)>>

\* What replaces match m.
AgentReplacement(r, s, m, value) ==
    (IF r = "tagline" THEN <<TAGLINE>> ELSE << >>)
        \o parse_template(AgentTemplate(r, value), 1, AgentGroups(r, s, m)).text

RECURSIVE AgentReSubFrom(_, _, _, _)
AgentReSubFrom(s, i, r, value) ==
    LET m == SearchFrom(s, i, r)
    IN  IF ~m.found THEN SubSeq(s, i, Len(s))
        ELSE SubSeq(s, i, m.start - 1) \o AgentReplacement(r, s, m, value)
                \o AgentReSubFrom(s, m.end + 1, r, value)

\* re.sub(pattern, template, updated_cv): the template is compiled before the
\* search, so a template in error raises with or without a match.
AgentReSub(s, r, value) ==
    LET groups == IF r = "tagline" THEN << >> ELSE <<s, s, s>>
    IN  IF parse_template(AgentTemplate(r, value), 1, groups).raised
        THEN [raised |-> TRUE, text |-> << >>]
        ELSE [raised |-> FALSE, text |-> AgentReSubFrom(s, 1, r, value)]

\* The member of a decoded object: its key and its string value.
NoMember == [some |-> FALSE, key |-> "", value |-> << >>]
Member(val) ==
    IF Len(val) >= 8 /\ val[1] = LB /\ val[2] = "<" /\ val[4] = ">" /\ val[5] = COLON
       /\ val[6] = "<"
    THEN [some |-> TRUE, key |-> val[3], value |-> SubSeq(val, 7, Len(val) - 2)]
    ELSE NoMember

\* CVMatcherAgent.apply_adaptations(cv_text, adaptations_json), for a
\* response that is an object of one member at most: the fence taken off,
\* json.loads, then the block of the member's key. It returns the updated
\* document or raises JSONDecodeError or re.error.
agent_apply_adaptations(cv_text, adaptations_json) ==
    LET decoded == json_loads(StripFence(adaptations_json))
        member == Member(decoded.val)
        sub == AgentReSub(cv_text, member.key, member.value)
    IN  IF ~decoded.ok THEN [raised |-> "JSONDecodeError", cv |-> << >>]
        ELSE IF ~member.some \/ member.key \notin Regions
        THEN [raised |-> "none", cv |-> cv_text]
        ELSE IF sub.raised THEN [raised |-> "re.error", cv |-> << >>]
        ELSE [raised |-> "none", cv |-> sub.text]

\* ---------------------------------------------- the standalone agent alone
MaxAgentLen == 4

\* The characters between the quotes of the member's value.
AgentContents == Texts({BS, "1", "n", "s"}, MaxAgentLen)

\* A response with one member, bare or in a json fence.
AgentResponses ==
    UNION {{b, <<FENCE, JSONWORD, NL>> \o b \o <<NL, FENCE>>} :
              b \in {<<LB, QUOTE, k, QUOTE, COLON, SP, QUOTE>> \o c \o <<QUOTE, RB>> :
                        k \in Regions \cup {"explanation"}, c \in AgentContents}}

InitAgent ==
    /\ NoRun
    /\ fn = "CVMatcherAgent.apply_adaptations"
    /\ upc = "call"
    /\ input \in [cv : {DocC6, DocFull}, response : AgentResponses]
    /\ output = << >>
    /\ tmpdir = NoDir

\* CVMatcherAgent.apply_adaptations(original_cv, adaptations_json).
AgentApplyAdaptations ==
    /\ fn = "CVMatcherAgent.apply_adaptations"
    /\ upc = "call"
    /\ output' = agent_apply_adaptations(input.cv, input.response)
    /\ upc' = "done"
    /\ UNCHANGED <<runVars, fn, input, tmpdir>>

NextAgent == AgentApplyAdaptations

SpecAgent == InitAgent /\ [][NextAgent]_vars

\* ---------------------------------------------------------------- C1
\* C1: the output file is written only after the candidate has passed the
\* structural validation: whatever is in the output file has balanced braces
\* and every mandatory command.
C1_WrittenOnlyAfterValidation ==
    output_file.some => validate_latex_structure(original_cv, output_file.val).valid

\* ---------------------------------------------------------------- C2
\* C2: a run whose first candidate is Invalid makes exactly one corrective
\* call (fix_adaptation_errors) before it ends: two generation calls in all.
C2_OneCorrectiveCall ==
    (pc = "exited" /\ compile # "none"
        /\ ~validate_latex_structure(original_cv, Candidate).valid)
    => (fix_calls = 1 /\ generate_calls = 2)

\* ---------------------------------------------------------------- C3
\* C3: without xelatex the validation falls back on the structural checks:
\* a document that apply_adaptations returns then has balanced braces and
\* every mandatory command.
C3_AbsentCompilerStillValidates ==
    (compile = "absent" /\ Returned)
    => validate_latex_structure(original_cv, adapted_cv).valid

OnlyRegion(r) ==
    /\ pc = "write"
    /\ DOMAIN adaptations = {r}
    /\ Search(original_cv, r).found

\* The last n tokens of s.
Suffix(s, n) == SubSeq(s, Len(s) - n + 1, Len(s))

\* ---------------------------------------------------------------- C5
\* C5: in a document that holds a region's anchor pair more than once, the
\* substitution of that region rewrites the first occurrence only: the text
\* after the first occurrence is the same in the returned document.
C5_OnlyFirstOccurrenceReplaced ==
    \A r \in Regions :
        LET m == Search(original_cv, r)
            rest == Len(original_cv) - m.end
        IN  (OnlyRegion(r) /\ SearchFrom(original_cv, m.end + 1, r).found)
            => /\ Len(adapted_cv) >= rest
               /\ Suffix(adapted_cv, rest) = Suffix(original_cv, rest)

\* ---------------------------------------------------------------- C6
\* C6: from the document with \tagline{Engineer} and \mainbar{X}\makebody
\* and the adaptation {tagline: "Senior Engineer", mainbar: "Y"} the returned
\* document holds \tagline{Senior Engineer} and \mainbar{Y}\makebody and is
\* structurally valid.
C6_EndToEnd ==
    (Returned /\ original_cv = DocC6 /\ adaptations = AdaptC6)
    => /\ Contains(adapted_cv, <<TAGLINE, "Senior", SP, "Engineer", RB>>)
       /\ Contains(adapted_cv, <<MAINBAR, "Y", RB, MAKEBODY>>)
       /\ validate_latex_structure(original_cv, adapted_cv).valid

\* ---------------------------------------------------------------- C7
\* Re-extracting region r from the returned document gives the value, both
\* trimmed, and r's anchors stand where and as they stood in the original.
RoundTrip(r) ==
    LET m0 == Search(original_cv, r)
        m1 == Search(adapted_cv, r)
        e == ExtractRegion(adapted_cv, r)
    IN  /\ e.some
        /\ Strip(e.val) = Strip(adaptations[r])
        /\ m1.start = m0.start
        /\ SubSeq(adapted_cv, 1, m1.from - 1) = SubSeq(original_cv, 1, m0.from - 1)
        /\ SubSeq(adapted_cv, m1.to + 1, m1.end) = SubSeq(original_cv, m0.to + 1, m0.end)

\* The trimmed value, behind the newline the writer puts before it, does not
\* hold the region's end anchor; a tagline value is not empty.
EndAnchorFree(r, value) ==
    /\ ~Contains(FrameLeft(r) \o Strip(value), EndPat(r))
    /\ r = "tagline" => Strip(value) # << >>

InsertedAt(r, text) ==
    StartsAt(adapted_cv, Search(original_cv, r).start,
             StartPat(r) \o FrameLeft(r) \o text \o FrameRight(r) \o EndPat(r))

\* C8 as stated: whatever the replacement text, the text inserted is the
\* trimmed replacement text, character for character.
C8_InsertedIsTrimmedText ==
    \A r \in Regions : OnlyRegion(r) => InsertedAt(r, Strip(adaptations[r]))

\* C8 amended: the text inserted is the trimmed replacement text, character
\* for character, except that a tagline value of the form \tagline{...} is
\* inserted without that wrapper; a group reference in it stays as written.
C8_InsertedIsLiteral ==
    \A r \in Regions :
        OnlyRegion(r) =>
            LET t == Strip(adaptations[r])
                wrapped == r = "tagline" /\ Len(t) >= 3 /\ t[1] = TAGLINE /\ t[Len(t)] = RB
            IN  InsertedAt(r, IF wrapped THEN SubSeq(t, 2, Len(t) - 1) ELSE t)

\* A value holding the group reference \1 was inserted.
C8_Witness ==
    \E r \in Regions :
        /\ OnlyRegion(r)
        /\ Contains(adaptations[r], <<BS, "1">>)
        /\ Contains(adapted_cv, <<BS, "1">>)

\* ---------------------------------------------------------------- C9
\* A value of words only: no brace, backslash, newline or command, so no
\* text of any anchor.
PlainText(value) ==
    \A i \in 1..Len(value) :
        value[i] \notin OpenCmd \cup {MAKEBODY, LB, RB, BS, NL}

\* C9: a region that is not a key of the adaptation has the same content,
\* as extract_sections gives it, before and after apply_adaptations.  Stated
\* for the replacement texts that are kindest to the claim, those of words
\* only: a violation here is a violation of the claim for any text.
C9_OtherRegionsUnchanged ==
    (pc = "write" /\ \A k \in DOMAIN adaptations : PlainText(adaptations[k]))
    => \A r \in Regions \ DOMAIN adaptations :
          ExtractRegion(adapted_cv, r) = sections[r]

\* --------------------------------------------------------------- C10
\* The brace depth at the end of content, escaped braces skipped.
RECURSIVE DepthAfter(_, _)
DepthAfter(content, n) ==
    IF n = 0 THEN 0 ELSE DepthAfter(content, n - 1) + Delta(content, n)

\* Region r's block found its anchors and inserted its content.
Substituted(r) ==
    \E k \in 1..Len(RegionOrder) :
        /\ RegionOrder[k] = r
        /\ r \in DOMAIN adaptations
        /\ Search(SubstituteUpTo(original_cv, adaptations, k - 1), r).found

\* C10: in a returned document the brace depth over the content of every
\* substituted region is back at zero at the region's end.
C10_SubstitutedRegionsBalanced ==
    Returned =>
        \A r \in Regions :
            Substituted(r) =>
                LET c == Content(r, adaptations[r]) IN DepthAfter(c, Len(c)) = 0

\* --------------------------------------------------------------- C11
\* C11: _validate_braces scans from left to right and counts the braces that
\* do not stand directly behind a backslash (C12 is about which braces those
\* should be).  It returns Valid exactly when the depth never goes below zero
\* and is zero at the end; when the depth first goes below zero it names the
\* position of that closing brace; when the depth at the end is D, not zero,
\* it reports D.  It returns on every text, the empty one and one that ends
\* in a backslash included.  Positions count from 1 here; the i of the
\* message counts the same characters from 0.
C11_ValidExactlyWhenBalanced ==
    Called("_validate_braces") =>
        LET n == Len(input)
            neg == {k \in 1..n : DepthAfter(input, k) < 0}
        IN  /\ output.valid <=> (neg = {} /\ DepthAfter(input, n) = 0)
            /\ neg # {} =>
                  /\ output = Invalid("Unmatched closing brace", Min(neg))
                  /\ input[Min(neg)] = RB
            /\ (neg = {} /\ DepthAfter(input, n) # 0) =>
                  output = Invalid("Unmatched opening braces", DepthAfter(input, n))

\* A balanced text that ends in a lone backslash was found Valid.
C11_Witness ==
    /\ Called("_validate_braces")
    /\ input = <<LB, RB, BS>>
    /\ output = Valid
    /\ tmpdir = NoDir

\* --------------------------------------------------------------- C12
\* The number of backslashes that stand directly before position i.
RECURSIVE BackslashRun(_, _)
BackslashRun(content, i) ==
    IF i > 1 /\ content[i - 1] = BS THEN 1 + BackslashRun(content, i - 1) ELSE 0

\* A brace is literal exactly when an odd number of backslashes stands
\* before it: the last of them is not itself escaped.
StructuralDelta(content, i) ==
    CASE BackslashRun(content, i) % 2 = 1 -> 0
      [] content[i] = LB -> 1
      [] content[i] = RB -> -1
      [] OTHER -> 0

RECURSIVE StructuralScan(_, _, _)
StructuralScan(content, i, depth) ==
    IF i > Len(content)
    THEN IF depth # 0 THEN Invalid("Unmatched opening braces", depth) ELSE Valid
    ELSE LET d == depth + StructuralDelta(content, i)
         IN  IF d < 0 THEN Invalid("Unmatched closing brace", i)
             ELSE StructuralScan(content, i + 1, d)

\* C12: _validate_braces treats a brace as literal exactly when an unescaped
\* backslash stands before it; a brace behind an escaped backslash (an even
\* run of backslashes) is structural and changes the depth.
C12_EscapedBackslashLeavesBraceStructural ==
    Called("_validate_braces") => output = StructuralScan(input, 1, 0)

\* --------------------------------------------------------------- C13
\* Region r's start anchor stands in s with its end anchor somewhere behind.
AnchorsFound(s, r) ==
    \E i \in 1..Len(s) :
        StartsAt(s, i, StartPat(r)) /\ FindFrom(s, i + Len(StartPat(r)), EndPat(r)) # 0

\* C13: a region whose anchors are found is reported present, with empty
\* content when nothing stands between them: extract_sections gives None only
\* when the anchors are not found, and sections_to_dict gives "N/A" only for
\* None.  This holds for all five regions.
C13_EmptyIsNotAbsent ==
    Called("sections_to_dict") =>
        \A r \in Regions :
            /\ sections[r].some <=> AnchorsFound(original_cv, r)
            /\ output[r] = NA <=> ~sections[r].some

\* --------------------------------------------------------------- C14
\* The adaptation without the key r.
Without(a, r) == [k \in DOMAIN a \ {r} |-> a[k]]

\* C14: for a document that lacks the anchors of one region, extract_sections
\* gives that region as absent and every other region with the content it has
\* in the full document; apply_adaptations, given a value for the absent
\* region, skips that block when it finds no anchors and returns what the
\* other regions' substitutions alone give, the document itself when the
\* absent region is the only key; it raises only when the compiler says no.
C14_MissingAnchorTolerated ==
    /\ pc = "adapt" =>
          \A r \in Regions :
              original_cv = MissingDoc(r) =>
                  /\ sections[r] = Absent
                  /\ \A q \in Regions \ {r} :
                        sections[q].some /\ sections[q] = ExtractRegion(DocFull, q)
    /\ pc = "write" =>
          \A r \in DOMAIN adaptations :
              (original_cv = MissingDoc(r) /\ ~Substituted(r)) =>
                  /\ adapted_cv = Substitute(original_cv, Without(adaptations, r))
                  /\ DOMAIN adaptations = {r} => adapted_cv = original_cv
    /\ pc = "raised" =>
          (failure = "rejected" <=> compile \in {"failed", "timeout", "error"})

\* A response with a value for the absent region and for a present one was
\* applied: the present one's text went in.
C14_Witness ==
    \E r \in Regions :
        /\ original_cv = MissingDoc(r)
        /\ pc = "write"
        /\ r \in DOMAIN adaptations
        /\ DOMAIN adaptations # {r}
        /\ adapted_cv # original_cv
        /\ ExtractRegion(adapted_cv, r) = Absent

\* --------------------------------------------------------------- C15
\* C15: a run makes at most two calls of model.generate_content (one and
\* the one retry), and after a call that raised it makes no further call.
C15_GenerationCallsBounded ==
    /\ [](generate_calls <= 2)
    /\ [][failure = "generate" => generate_calls' = generate_calls]_vars

\* A run whose generation call raised has ended, with that one call.
C15_Witness ==
    /\ pc = "exited"
    /\ failure = "generate"
    /\ generate_calls = 1

\* --------------------------------------------------------------- C16
\* C16: _validate_latex_structure returns Valid exactly when the braces of
\* the whole candidate are balanced and each of the five mandatory commands
\* occurs in it; an unbalanced candidate is reported with the brace reason
\* even when a command is missing too; otherwise the first missing command
\* is named.
C16_StructureValidExactlyWhen ==
    Called("_validate_latex_structure") =>
        LET b == validate_braces(input)
            missing == {k \in 1..Len(required_commands) :
                           \A i \in 1..Len(input) : input[i] # required_commands[k]}
        IN  /\ output.valid <=> (b.valid /\ missing = {})
            /\ ~b.valid => output = b
            /\ (b.valid /\ missing # {}) =>
                  /\ output.reason = "Missing required command"
                  /\ output.at \in missing
                  /\ \A k \in missing : output.at <= k

\* A candidate both unbalanced and without \mainbar{ was reported with the
\* brace reason.
C16_Witness ==
    /\ Called("_validate_latex_structure")
    /\ ~Contains(input, <<MAINBAR>>)
    /\ Contains(input, <<NAME>>)
    /\ output.reason = "Unmatched opening braces"

\* --------------------------------------------------------------- C17
\* C17: for a text that json.loads decodes, _fix_json_escaping returns the
\* text unchanged, so that the repaired text decodes to the same data.
C17_RepairKeepsDecodableText ==
    (Called("_fix_json_escaping") /\ json_loads(input).ok) =>
        /\ output.fixed = input
        /\ output.controlled = input
        /\ json_loads(output.fixed) = json_loads(input)

\* A decodable object with newlines between its tokens and escapes in its
\* string went through the repair.
C17_Witness ==
    /\ Called("_fix_json_escaping")
    /\ json_loads(input).ok
    /\ Contains(input, <<LB, NL>>)
    /\ Contains(input, <<BS, BS, QUOTE>>)
    /\ output.fixed = input

\* --------------------------------------------------------------- C18
\* Position i of t lies inside a string literal: an odd number of quotes
\* that no unescaped backslash precedes stands before it.
InStringLiteral(t, i) ==
    Cardinality({j \in 1..(i - 1) : t[j] = QUOTE /\ BackslashRun(t, j) % 2 = 0}) % 2 = 1

\* Every raw newline, carriage return and tab inside a string literal
\* rewritten, everything else as it was.
RECURSIVE RewriteControls(_, _)
RewriteControls(t, n) ==
    IF n = 0 THEN << >>
    ELSE RewriteControls(t, n - 1)
            \o (CASE InStringLiteral(t, n) /\ t[n] = NL -> <<BS, "n">>
                  [] InStringLiteral(t, n) /\ t[n] = CR -> <<BS, "r">>
                  [] InStringLiteral(t, n) /\ t[n] = TAB -> <<BS, "t">>
                  [] OTHER -> <<t[n]>>)

\* C18: step 1 of _fix_json_escaping rewrites every raw newline, carriage
\* return and tab inside a string literal to its two-character escape, one
\* that follows a backslash included, and copies every other character; its
\* output has no raw newline, carriage return or tab inside a string literal.
C18_ControlCharactersEscaped ==
    Called("_fix_json_escaping") =>
        /\ output.controlled = RewriteControls(input, Len(input))
        /\ \A i \in 1..Len(output.controlled) :
              output.controlled[i] \in {NL, CR, TAB}
                  => ~InStringLiteral(output.controlled, i)

\* --------------------------------------------------------------- C19
\* C19: when _compile_latex has ended, by any of its returns (success,
\* failed compilation, timeout, no compiler, another exception of the call)
\* or by an exception of its own, the scratch directory and every file in it
\* are gone; the directory exists only while the call is under way.
C19_NoScratchLeftBehind ==
    /\ Called("_compile_latex") => tmpdir = NoDir
    /\ tmpdir.exists => (fn = "_compile_latex" /\ upc \in {"entered", "written", "copied", "leaving"})

\* A call whose compiler ran into the timeout has ended, its directory gone.
C19_Witness ==
    /\ Called("_compile_latex")
    /\ output.outcome = "timeout"
    /\ ~output.ok
    /\ tmpdir = NoDir

\* --------------------------------------------------------------- C20
\* C20: _parse_response strips a fence if there is one and decodes the
\* text; it calls _fix_json_escaping only when that decode fails, and once;
\* when the repaired text does not decode either it raises ValueError and
\* returns no adaptation.
C20_RepairOnlyAfterFailedDecode ==
    Called("_parse_response") =>
        LET text == StripFence(input)
        IN  /\ json_loads(text).ok =>
                  /\ output.fix_calls = 0
                  /\ ~output.raised
                  /\ output.adaptations = json_loads(text).val
            /\ ~json_loads(text).ok =>
                  /\ output.fix_calls = 1
                  /\ output.loads_calls = 2
                  /\ output.decoded = fix_json_escaping(text)
                  /\ output.raised <=> ~json_loads(fix_json_escaping(text)).ok
            /\ output.raised => output.adaptations = << >>
            /\ ~output.raised => output.adaptations = json_loads(output.decoded).val

\* A fenced response whose object did not decode as it came and decoded
\* once repaired.
C20_Witness ==
    /\ Called("_parse_response")
    /\ Contains(input, <<FENCE, JSONWORD>>)
    /\ StripFence(input) # input
    /\ ~json_loads(StripFence(input)).ok
    /\ output.fix_calls = 1
    /\ ~output.raised
    /\ output.adaptations = <<LB, "<", "a", ">", COLON, "<", BS, "s", ">", RB>>

\* --------------------------------------------------------------- C21
\* The backslash at position i of t is the odd one left over at the end of
\* its run: the backslashes before it pair up and no backslash follows.
LoneBackslash(t, i) ==
    /\ t[i] = BS
    /\ BackslashRun(t, i) % 2 = 0
    /\ ~(i < Len(t) /\ t[i + 1] = BS)

\* The letters a JSON escape can start with, and the quote and the slash.
EscapeLetters == {"n", "r", "t", "b", "f", "u", QUOTE, SLASH}

\* The first n characters of t with every lone backslash that no escape
\* letter follows doubled and every other character as it was.
RECURSIVE DoubleLoneBackslashes(_, _)
DoubleLoneBackslashes(t, n) ==
    IF n = 0 THEN << >>
    ELSE DoubleLoneBackslashes(t, n - 1)
            \o (IF LoneBackslash(t, n) /\ ~(n < Len(t) /\ t[n + 1] \in EscapeLetters)
                THEN <<BS, BS>>
                ELSE <<t[n]>>)

\* C21: on a text without the sentinel, step 2 of _fix_json_escaping keeps
\* every pair of backslashes as a pair and doubles every backslash left over
\* that none of n r t b f u, quote or slash follows, one at the end of the
\* text included; in its output every backslash is half of a pair or stands
\* before one of those characters.
C21_BackslashPass ==
    (Called("_fix_json_escaping") /\ ~Contains(output.controlled, <<SENTINEL>>)) =>
        /\ output.fixed = DoubleLoneBackslashes(output.controlled, Len(output.controlled))
        /\ \A i \in 1..Len(output.fixed) :
              LoneBackslash(output.fixed, i) =>
                  (i < Len(output.fixed) /\ output.fixed[i + 1] \in EscapeLetters)

\* --------------------------------------------------------------- C22
\* The document with the value put, as it is, between the anchors of every
\* match of region r.
RECURSIVE LiteralSubFrom(_, _, _, _)
LiteralSubFrom(s, i, r, value) ==
    LET m == SearchFrom(s, i, r)
    IN  IF ~m.found THEN SubSeq(s, i, Len(s))
        ELSE SubSeq(s, i, m.from - 1) \o value \o SubSeq(s, m.to + 1, m.end)
                \o LiteralSubFrom(s, m.end + 1, r, value)

\* The response of the call decoded, and its member.
AgentDecoded == json_loads(StripFence(input.response))
AgentMember == Member(AgentDecoded.val)

\* C22: the standalone agent inserts the generated value as literal text: when
\* the response decodes to a value for a region whose anchors the document
\* has, the call raises no pattern error and returns the document with
\* exactly that value between the region's anchors, whatever backslashes,
\* digits and letters the value holds.
C22_AgentInsertsLiteral ==
    (/\ Called("CVMatcherAgent.apply_adaptations")
     /\ AgentDecoded.ok
     /\ AgentMember.some
     /\ AgentMember.key \in Regions
     /\ Search(input.cv, AgentMember.key).found) =>
        /\ output.raised = "none"
        /\ output.cv = LiteralSubFrom(input.cv, 1, AgentMember.key, AgentMember.value)

\* --------------------------------------------------------------- C23
\* The blocks of apply_adaptations taken in another order.
RECURSIVE SubstituteInOrder(_, _, _, _)
SubstituteInOrder(cv, a, order, k) ==
    IF k = 0 THEN cv
    ELSE SubRegion(SubstituteInOrder(cv, a, order, k - 1), a, order[k])

ReverseOrder == [k \in 1..Len(RegionOrder) |-> RegionOrder[Len(RegionOrder) + 1 - k]]

\* What region r's block wrote: its anchors around the framed content.
Written(r) ==
    StartPat(r) \o FrameLeft(r) \o Content(r, adaptations[r]) \o FrameRight(r)
        \o EndPat(r)

\* C23: the regions are substituted in the order tagline, highlightbar,
\* mainbar, experiences, general_skills, each in the document the earlier
\* ones left; what an earlier region's block wrote is still there, as
\* written, in the returned document, and the returned document is the one
\* the blocks give in the opposite order too.
C23_OrderDoesNotMatter ==
    pc = "write" =>
        /\ adapted_cv = SubstituteUpTo(original_cv, adaptations, Len(RegionOrder))
        /\ \A r \in Regions : Substituted(r) => Contains(adapted_cv, Written(r))
        /\ adapted_cv = SubstituteInOrder(original_cv, adaptations, ReverseOrder,
                                          Len(ReverseOrder))

====
